---------------------------- MODULE Spec2Model ----------------------------
(***************************************************************************)
(* Payroll calculation engine and payroll-period workflow of django-erp.   *)
(*                                                                         *)
(* Money and Decimal values are fixed-point integers: one unit is 1/Scale  *)
(* of a won.  Values computed in memory keep the working precision Scale;  *)
(* a value written to a DecimalField/MoneyField column is quantized to the *)
(* column's decimal_places (half-even), as the ORM does on save.           *)
(***************************************************************************)
EXTENDS Integers, Sequences, FiniteSets, Bags, TLC

(***************************************************************************)
(* Bounds of the model.                                                    *)
(***************************************************************************)
MaxFaults == 1      \* database errors injected along one behaviour
MaxEdits == 1       \* master-data edits along one behaviour
MaxUnpaidDays == 3  \* unpaid leave days tried in direct calls of _calculate_base_salary

(***************************************************************************)
(* Decimal arithmetic.                                                     *)
(***************************************************************************)
Scale == 100 * 100                 \* working units per won (4 decimal places)
KRW(n) == n * Scale

\* n / d rounded to the nearest integer, ties to even (decimal.ROUND_HALF_EVEN)
RoundHalfEven(n, d) ==
    LET q == n \div d
        r == n % d
    IN  IF 2 * r < d THEN q
        ELSE IF 2 * r > d THEN q + 1
        ELSE IF q % 2 = 0 THEN q ELSE q + 1

\* a Decimal times the decimal fraction num/den, at the working precision:
\* x * num / den rounded half-even, computed from the quotient and remainder
\* of x by den so that the intermediate products stay small
MulFrac(x, num, den) ==
    LET n == (x % den) * num
        f == (x \div den) * num + n \div den
        r == n % den
    IN  IF 2 * r < den THEN f
        ELSE IF 2 * r > den THEN f + 1
        ELSE IF f % 2 = 0 THEN f ELSE f + 1

\* DecimalField/MoneyField(decimal_places = places): the stored value
Quantize(x, places) ==
    LET step == IF places = 2 THEN Scale \div 100 ELSE 1
    IN  RoundHalfEven(x, step) * step

MoneyField(x) == Quantize(x, 2)

(***************************************************************************)
(* Master data and collaborators' records (inputs of the engine).          *)
(***************************************************************************)
NoRow == [exists |-> FALSE]
None == -1

Actors == {"A1", "A2"}
Employees == {"E1", "E2"}
\* Employee.objects.filter(...) yields employees in this order
EmployeeOrder == <<"E1", "E2">>

EmployeeStatus == {"ACTIVE", "ON_LEAVE", "RESIGNED"}

\* Employee rows: the allowance of the assigned JobPosition
\* (position = FALSE: no job position assigned)
EmployeeTable ==
    [e \in Employees |->
        IF e = "E1"
        THEN [position |-> FALSE, allowance |-> 0]
        ELSE [position |-> TRUE, allowance |-> KRW(50)]]

\* the payroll period's dates (days, counted from an origin)
PeriodDates == [start_date |-> 1, end_date |-> 2]
PeriodEnd == PeriodDates.end_date

\* the SalaryContract rows
SalaryContracts ==
    { [employee |-> "E1", effective_date |-> 0, is_active |-> FALSE,
       monthly_base_salary |-> KRW(80)],
      [employee |-> "E1", effective_date |-> 0, is_active |-> TRUE,
       monthly_base_salary |-> KRW(60)],
      [employee |-> "E1", effective_date |-> PeriodEnd, is_active |-> TRUE,
       monthly_base_salary |-> KRW(100)],
      [employee |-> "E1", effective_date |-> 3, is_active |-> TRUE,
       monthly_base_salary |-> KRW(200)],
      [employee |-> "E2", effective_date |-> 1, is_active |-> FALSE,
       monthly_base_salary |-> KRW(70)],
      [employee |-> "E2", effective_date |-> 3, is_active |-> TRUE,
       monthly_base_salary |-> KRW(90)] }

CalculationType == {"FIXED", "PERCENTAGE", "HOURLY", "FORMULA"}

\* AllowanceType rows in Meta.ordering (display_order, name)
AllowanceTypes ==
    << [code |-> "MEAL", calculation_type |-> "FIXED", default_amount |-> KRW(10)],
       [code |-> "POSITION", calculation_type |-> "FIXED", default_amount |-> 0],
       [code |-> "OVERTIME", calculation_type |-> "HOURLY", default_amount |-> KRW(5)],
       [code |-> "NIGHT", calculation_type |-> "FIXED", default_amount |-> KRW(4)],
       [code |-> "BONUS", calculation_type |-> "PERCENTAGE", default_amount |-> KRW(7)] >>
AllowanceCodes == { AllowanceTypes[i].code : i \in 1..Len(AllowanceTypes) }

\* the statutory deduction codes the engine recognizes
DeductionCodes ==
    {"PENSION", "HEALTH", "LONG_TERM_CARE", "EMPLOYMENT", "INCOME_TAX", "RESIDENT_TAX"}

\* DeductionType.default_rate (decimal_places = 4), in 1/10000
RateDen == 100 * 100
DefaultRate ==
    [c \in DeductionCodes |->
        CASE c = "PENSION" -> 450
          [] c = "HEALTH" -> 355
          [] c = "LONG_TERM_CARE" -> 1295
          [] c = "EMPLOYMENT" -> 90
          [] c = "INCOME_TAX" -> 0
          [] c = "RESIDENT_TAX" -> 1000]

\* DeductionType.max_amount (null unless configured)
MaxAmount == [c \in DeductionCodes |-> IF c = "PENSION" THEN KRW(3) ELSE None]

\* DeductionType rows are read in Meta.ordering = ["name"]; name is free text,
\* so the codes may come in any order.  Two orders are considered.
DependencyOrder ==
    <<"PENSION", "HEALTH", "LONG_TERM_CARE", "EMPLOYMENT", "INCOME_TAX", "RESIDENT_TAX">>
DerivedFirstOrder ==
    <<"EMPLOYMENT", "LONG_TERM_CARE", "HEALTH", "PENSION", "RESIDENT_TAX", "INCOME_TAX">>
RuleOrders == {DependencyOrder, DerivedFirstOrder}

DeductionTypeRow == [exists : BOOLEAN, is_active : BOOLEAN, is_statutory : BOOLEAN]
SeededRule == [exists |-> TRUE, is_active |-> TRUE, is_statutory |-> TRUE]

\* work data per employee: what _gather_work_data reads from attendance/leave
WorkData == [work_days |-> 19, unpaid_leave_days |-> 1, overtime_hours |-> 1]


(***************************************************************************)
(* State.                                                                  *)
(***************************************************************************)
VARIABLES
    period,        \* the PayrollPeriod row in the database
    payslips,      \* Payslip rows of the period, by employee (unique_together)
    allowRows,     \* PayslipAllowance rows, a bag per payslip
    dedRows,       \* PayslipDeduction rows, a bag per payslip
    dedTypes,      \* DeductionType rows, by code
    ruleOrder,     \* the order DeductionType rows are read in
    allowActive,   \* codes of the AllowanceType rows with is_active set
    work,          \* attendance/leave figures per employee
    empStatus,     \* Employee.status per employee
    pc,            \* per actor: position in the running handler
    proc,          \* per actor: the handler or engine entry point running
    obj,           \* per actor: the PayrollPeriod instance held in memory
    queue,         \* per actor: employees the engine loop has yet to visit
    mem,           \* per actor: locals of calculate_for_employee
    ret,           \* per actor: employees whose payslip the run returned
    failed,        \* per actor: employees whose calculation raised, with the error
    outcome,       \* per actor: how the last handler ended
    last,          \* the last direct transition call and its result
    pass,          \* per employee: the last finished calculate_for_employee
    starts,        \* start_calculation calls saved for the period (saturates at 2)
    faults,        \* database errors injected so far
    edits,         \* master-data edits so far
    inserted,      \* per employee: Payslip rows INSERTed for the period (saturates at 2)
    adjustments,   \* per employee: PayrollAdjustment rows, by the payslip row they reference
    call           \* a direct call of one of the engine's pure helpers, and its result

vars == << period, payslips, allowRows, dedRows, dedTypes, ruleOrder, allowActive,
           work, empStatus, pc, proc, obj, queue, mem, ret, failed, outcome, last, pass,
           starts, faults, edits, inserted, adjustments, call >>

dbVars == << period, payslips, allowRows, dedRows >>
\* everything but the direct helper call
stateVars == << period, payslips, allowRows, dedRows, dedTypes, ruleOrder, allowActive,
                work, empStatus, pc, proc, obj, queue, mem, ret, failed, outcome, last,
                pass, starts, faults, edits, inserted, adjustments >>
inputVars == << dedTypes, ruleOrder, allowActive, work, empStatus >>

(***************************************************************************)
(* PayrollCalculator: the computations.                                    *)
(***************************************************************************)
\* _gather_work_data: the figures of one employee over the period
_gather_work_data(w, employee) ==
    [ work_days |-> w[employee].work_days,
      paid_leave_days |-> 0,
      unpaid_leave_days |-> w[employee].unpaid_leave_days,
      overtime_hours |-> w[employee].overtime_hours,
      night_hours |-> 0,
      holiday_hours |-> 0 ]

\* LeaveRequest.objects.filter(employee, state=APPROVED, leave_type__is_paid=False,
\*     start_date__lte=period.end_date, end_date__gte=period.start_date)
UnpaidLeaveRequests(requests, employee) ==
    { lr \in requests :
        /\ lr.employee = employee
        /\ lr.state = "APPROVED"
        /\ ~lr.is_paid
        /\ lr.start_date <= PeriodDates.end_date
        /\ lr.end_date >= PeriodDates.start_date }

\* sum(float(lr.total_days) for lr in unpaid_leave_requests): the whole length
\* of every selected request, whatever part of it lies in the period
RECURSIVE SumTotalDays(_)
SumTotalDays(requests) ==
    IF requests = {} THEN 0
    ELSE LET lr == CHOOSE x \in requests : TRUE
         IN  lr.total_days + SumTotalDays(requests \ {lr})

\* SalaryContract.objects.filter(employee, is_active, effective_date <= end)
\*     .order_by("-effective_date").first()
ActiveContracts(employee) ==
    { c \in SalaryContracts :
        c.employee = employee /\ c.is_active /\ c.effective_date <= PeriodEnd }

HasContract(employee) == ActiveContracts(employee) # {}

\* the oldest of the contracts in force
ResolveEarliest(employee) ==
    CHOOSE c \in ActiveContracts(employee) :
        \A d \in ActiveContracts(employee) : c.effective_date <= d.effective_date

ResolveContract(employee) ==
    CHOOSE c \in ActiveContracts(employee) :
        \A d \in ActiveContracts(employee) : d.effective_date <= c.effective_date

DaysPerMonth == 30
StandardMonthlyHours == 209

\* a base salary that ignores unpaid leave
FullMonthlyBase(monthly_base, unpaid_leave_days) == monthly_base

\* _calculate_base_salary once the contract is resolved
BaseSalaryOf(monthly_base, unpaid_leave_days) ==
    IF unpaid_leave_days > 0
    THEN LET daily_rate == RoundHalfEven(monthly_base, DaysPerMonth)
             deduction == daily_rate * unpaid_leave_days
         IN  monthly_base - deduction
    ELSE monthly_base

_calculate_base_salary(employee, work_data) ==
    IF ~HasContract(employee) THEN 0
    ELSE BaseSalaryOf(ResolveContract(employee).monthly_base_salary,
                      work_data.unpaid_leave_days)

\* a loop body without the branch that skips the overtime-related codes
AllowanceEntryNoSkip(allowance_type, job_position) ==
    IF allowance_type.code = "POSITION"
    THEN IF job_position.position /\ job_position.allowance # 0
         THEN << [code |-> "POSITION", amount |-> job_position.allowance,
                  quantity |-> 1, rate |-> 0] >>
         ELSE << >>
    ELSE IF allowance_type.calculation_type = "FIXED"
    THEN << [code |-> allowance_type.code, amount |-> allowance_type.default_amount,
             quantity |-> 1, rate |-> 0] >>
    ELSE << >>

\* one allowance rule applied to one employee (the employee's job position and
\* its allowance): the entries it adds to the dict
AllowanceEntry(allowance_type, job_position) ==
    IF allowance_type.code = "POSITION"
    THEN IF job_position.position /\ job_position.allowance # 0
         THEN << [code |-> "POSITION", amount |-> job_position.allowance,
                  quantity |-> 1, rate |-> 0] >>
         ELSE << >>
    ELSE IF allowance_type.code \in {"OVERTIME", "NIGHT", "HOLIDAY"}
    THEN << >>
    ELSE IF allowance_type.calculation_type = "FIXED"
    THEN << [code |-> allowance_type.code, amount |-> allowance_type.default_amount,
             quantity |-> 1, rate |-> 0] >>
    ELSE << >>

RECURSIVE AllowanceLoop(_, _, _)
AllowanceLoop(types, active, job_position) ==
    IF types = << >> THEN << >>
    ELSE (IF Head(types).code \in active
          THEN AllowanceEntry(Head(types), job_position) ELSE << >>)
         \o AllowanceLoop(Tail(types), active, job_position)

\* _calculate_allowances: the dict, as the sequence of its entries in insertion order
_calculate_allowances(active, employee) ==
    AllowanceLoop(AllowanceTypes, active, EmployeeTable[employee])

RECURSIVE SumAmounts(_)
SumAmounts(rows) ==
    IF rows = << >> THEN 0 ELSE Head(rows).amount + SumAmounts(Tail(rows))

\* overtime paid from the employee's latest contract, active or not, whatever
\* its effective date
OvertimePayAnyContract(employee, work_data) ==
    LET mine == { c \in SalaryContracts : c.employee = employee }
    IN  IF work_data.overtime_hours <= 0 \/ mine = {} THEN 0
        ELSE LET contract == CHOOSE c \in mine :
                                 \A d \in mine : d.effective_date <= c.effective_date
                 hourly_rate == RoundHalfEven(contract.monthly_base_salary,
                                              StandardMonthlyHours)
             IN  MulFrac(hourly_rate, 15, 10) * work_data.overtime_hours

\* _calculate_overtime_pay once the contract is resolved
OvertimePayOf(monthly_base, overtime_hours) ==
    LET hourly_rate == RoundHalfEven(monthly_base, StandardMonthlyHours)
    IN  MulFrac(hourly_rate, 15, 10) * overtime_hours

_calculate_overtime_pay(employee, work_data) ==
    IF work_data.overtime_hours <= 0 THEN 0
    ELSE IF ~HasContract(employee) THEN 0
    ELSE OvertimePayOf(ResolveContract(employee).monthly_base_salary,
                       work_data.overtime_hours)

\* a schedule that applies the rate of the band to the whole amount
IncomeTaxWholeRate(gross_salary, s) ==
    IF gross_salary <= 1500000 * s THEN (gross_salary * 6) \div 100
    ELSE IF gross_salary <= 4500000 * s THEN (gross_salary \div 100) * 15
    ELSE IF gross_salary <= 8800000 * s THEN (gross_salary \div 100) * 24
    ELSE (gross_salary \div 100) * 35

\* gross <= k won, for gross in units of 1/s won
LeWon(gross, k, s) == gross \div s < k \/ (gross \div s = k /\ gross % s = 0)

\* _calculate_income_tax on an amount in units of 1/s won
IncomeTaxAt(gross_salary, s) ==
    IF LeWon(gross_salary, 1500000, s)
    THEN MulFrac(gross_salary, 6, 100)
    ELSE IF LeWon(gross_salary, 4500000, s)
    THEN 90000 * s + MulFrac(gross_salary - 1500000 * s, 15, 100)
    ELSE IF LeWon(gross_salary, 8800000, s)
    THEN 540000 * s + MulFrac(gross_salary - 4500000 * s, 24, 100)
    ELSE 1572000 * s + MulFrac(gross_salary - 8800000 * s, 35, 100)

_calculate_income_tax(gross_salary) == IncomeTaxAt(gross_salary, Scale)

\* the PENSION branch: gross times rate, replaced by max_amount when
\* `deduction_type.max_amount and amount > deduction_type.max_amount` holds
\* (a null max_amount and a max_amount of 0 are both falsy)
PensionAmount(gross_salary, rate, max_amount) ==
    LET amount == MulFrac(gross_salary, rate, RateDen)
    IN  IF max_amount # None /\ max_amount # 0 /\ amount > max_amount
        THEN max_amount ELSE amount

\* the body of the loop of _calculate_deductions for one visited rule:
\* the deductions dict after the rule with this code
DeductionBranch(code, gross_salary, deductions) ==
    LET rate == DefaultRate[code]
        entry(amount, base) ==
            (code :> [amount |-> amount, base_amount |-> base,
                      rate |-> IF code = "INCOME_TAX" THEN 0 ELSE rate]) @@ deductions
    IN  CASE code = "PENSION" ->
               entry(PensionAmount(gross_salary, rate, MaxAmount[code]), gross_salary)
          [] code \in {"HEALTH", "EMPLOYMENT"} ->
               entry(MulFrac(gross_salary, rate, RateDen), gross_salary)
          [] code = "LONG_TERM_CARE" ->
               IF "HEALTH" \in DOMAIN deductions
               THEN entry(MulFrac(deductions["HEALTH"].amount, rate, RateDen),
                          deductions["HEALTH"].amount)
               ELSE deductions
          [] code = "INCOME_TAX" ->
               entry(_calculate_income_tax(gross_salary), gross_salary)
          [] code = "RESIDENT_TAX" ->
               IF "INCOME_TAX" \in DOMAIN deductions
               THEN entry(MulFrac(deductions["INCOME_TAX"].amount, rate, RateDen),
                          deductions["INCOME_TAX"].amount)
               ELSE deductions
          [] OTHER -> deductions

\* DeductionType.objects.filter(is_active=True, is_statutory=True)
RuleSelected(types, code) ==
    types[code].exists /\ types[code].is_active /\ types[code].is_statutory

EmptyDict == [c \in {} |-> 0]

RECURSIVE DeductionLoop(_, _, _, _)
DeductionLoop(types, order, gross_salary, deductions) ==
    IF order = << >> THEN deductions
    ELSE DeductionLoop(types, Tail(order), gross_salary,
             IF RuleSelected(types, Head(order))
             THEN DeductionBranch(Head(order), gross_salary, deductions)
             ELSE deductions)

_calculate_deductions(types, order, gross_salary) ==
    DeductionLoop(types, order, gross_salary, EmptyDict)

\* the entries of the deductions dict in insertion order, as rows to save
RECURSIVE DictRows(_, _)
DictRows(order, deductions) ==
    IF order = << >> THEN << >>
    ELSE (IF Head(order) \in DOMAIN deductions
          THEN << [code |-> Head(order)] @@ deductions[Head(order)] >> ELSE << >>)
         \o DictRows(Tail(order), deductions)

RECURSIVE SumDict(_, _)
SumDict(codes, deductions) ==
    IF codes = {} THEN 0
    ELSE LET c == CHOOSE x \in codes : TRUE
         IN  deductions[c].amount + SumDict(codes \ {c}, deductions)


\* steps 1-7 of calculate_for_employee: everything computed before the upsert
Calculation(employee, w, types, order, active) ==
    LET work_data == _gather_work_data(w, employee)
        base_salary == _calculate_base_salary(employee, work_data)
        allowances == _calculate_allowances(active, employee)
        total_allowances == SumAmounts(allowances)
        overtime_pay == _calculate_overtime_pay(employee, work_data)
        gross_salary == base_salary + total_allowances + overtime_pay
        deductions == _calculate_deductions(types, order, gross_salary)
        total_deductions == SumDict(DOMAIN deductions, deductions)
        net_salary == gross_salary - total_deductions
    IN  [ work_data |-> work_data,
          base_salary |-> base_salary,
          allowances |-> allowances,
          total_allowances |-> total_allowances,
          overtime_pay |-> overtime_pay,
          gross_salary |-> gross_salary,
          deductions |-> deductions,
          deduction_rows |-> DictRows(order, deductions),
          total_deductions |-> total_deductions,
          net_salary |-> net_salary ]

\* building the defaults dict subscripts deductions[...] for all six codes
RaisesKeyError(c) == ~(DeductionCodes \subseteq DOMAIN c.deductions)

\* the Payslip row update_or_create writes: the defaults, each quantized by its column
PayslipDefaults(c) ==
    [ exists |-> TRUE,
      work_days |-> c.work_data.work_days,
      unpaid_leave_days |-> c.work_data.unpaid_leave_days,
      overtime_hours |-> c.work_data.overtime_hours,
      base_salary |-> MoneyField(c.base_salary),
      total_allowances |-> MoneyField(c.total_allowances),
      overtime_pay |-> MoneyField(c.overtime_pay),
      gross_salary |-> MoneyField(c.gross_salary),
      income_tax |-> MoneyField(c.deductions["INCOME_TAX"].amount),
      resident_tax |-> MoneyField(c.deductions["RESIDENT_TAX"].amount),
      national_pension |-> MoneyField(c.deductions["PENSION"].amount),
      health_insurance |-> MoneyField(c.deductions["HEALTH"].amount),
      long_term_care |-> MoneyField(c.deductions["LONG_TERM_CARE"].amount),
      employment_insurance |-> MoneyField(c.deductions["EMPLOYMENT"].amount),
      total_deductions |-> MoneyField(c.total_deductions),
      net_salary |-> MoneyField(c.net_salary),
      status |-> "CALCULATED" ]

\* the PayslipAllowance row created from one entry of the allowances dict
PayslipAllowance(data) ==
    [ allowance_type |-> data.code,
      amount |-> MoneyField(data.amount),
      quantity |-> data.quantity,
      rate |-> data.rate,
      calculation_note |-> data.code ]

\* the PayslipDeduction row created from one entry of the deductions dict
PayslipDeduction(data) ==
    [ deduction_type |-> data.code,
      amount |-> MoneyField(data.amount),
      base_amount |-> MoneyField(data.base_amount),
      rate |-> data.rate,
      calculation_note |-> data.code ]

\* the entry points that run the loop of calculate_all_employees
RunsLoop(p) == p \in {"calculate_payroll_action", "calculate_all_employees"}

\* a loop without the try/except around calculate_for_employee
CatchesNothing(p) == FALSE

\* calculate_all_employees catches what calculate_for_employee raises and goes on;
\* a direct call of calculate_for_employee lets it propagate
CatchesEmployeeError(p) == RunsLoop(p)

\* every employee, whatever the status
AllEmployees(status, order) == order

\* Employee.objects.filter(status=ACTIVE), in order
RECURSIVE ActiveEmployees(_, _)
ActiveEmployees(status, order) ==
    IF order = << >> THEN << >>
    ELSE (IF status[Head(order)] = "ACTIVE"
          THEN << Head(order) >> ELSE << >>) \o ActiveEmployees(status, Tail(order))

RECURSIVE SumField(_, _, _)
SumField(slips, emps, field) ==
    IF emps = {} THEN 0
    ELSE LET e == CHOOSE x \in emps : TRUE
         IN  (IF slips[e].exists THEN slips[e][field] ELSE 0)
             + SumField(slips, emps \ {e}, field)

\* statistics accumulated from the payslips the loop returned
PeriodAggregatesOfReturned(slips, returned) ==
    [ total_gross |-> SumField(slips, returned, "gross_salary"),
      total_deductions |-> SumField(slips, returned, "total_deductions"),
      total_net |-> SumField(slips, returned, "net_salary"),
      employee_count |-> Cardinality(returned) ]

\* _update_period_statistics: the aggregates over the period's persisted payslips
PeriodAggregates(slips, returned) ==
    [ total_gross |-> SumField(slips, Employees, "gross_salary"),
      total_deductions |-> SumField(slips, Employees, "total_deductions"),
      total_net |-> SumField(slips, Employees, "net_salary"),
      employee_count |-> Cardinality({ e \in Employees : slips[e].exists }) ]

(***************************************************************************)
(* PayrollPeriod: the FSM field and its transitions (django-fsm).          *)
(***************************************************************************)
PayrollPeriodStatus ==
    {"DRAFT", "CALCULATING", "PENDING_APPROVAL", "APPROVED", "PAID", "CLOSED"}

Transitions ==
    {"start_calculation", "submit_for_approval", "approve", "mark_as_paid", "close_period"}

TransitionSource(name) ==
    CASE name = "start_calculation" -> "DRAFT"
      [] name = "submit_for_approval" -> "CALCULATING"
      [] name = "approve" -> "PENDING_APPROVAL"
      [] name = "mark_as_paid" -> "APPROVED"
      [] name = "close_period" -> "PAID"

\* a target table in which mark_as_paid closes the period at once
TransitionTargetSkipping(name) ==
    CASE name = "start_calculation" -> "CALCULATING"
      [] name = "submit_for_approval" -> "PENDING_APPROVAL"
      [] name = "approve" -> "APPROVED"
      [] name = "mark_as_paid" -> "CLOSED"
      [] name = "close_period" -> "CLOSED"

TransitionTarget(name) ==
    CASE name = "start_calculation" -> "CALCULATING"
      [] name = "submit_for_approval" -> "PENDING_APPROVAL"
      [] name = "approve" -> "APPROVED"
      [] name = "mark_as_paid" -> "PAID"
      [] name = "close_period" -> "CLOSED"

\* a transition whose method body does nothing
MethodBodyEmpty(name, instance) == instance

\* the body of the decorated method
MethodBody(name, instance) ==
    IF name = "approve" THEN [instance EXCEPT !.approved_at = TRUE] ELSE instance

\* a transition method without its source condition
TransitionUnguarded(name, instance) ==
    [raised |-> FALSE,
     instance |-> [MethodBody(name, instance) EXCEPT !.status = TransitionTarget(name)]]

\* calling a @transition method on an instance: TransitionNotAllowed unless the
\* instance's status is the source; otherwise the body runs and the status is set
Transition(name, instance) ==
    IF instance.status # TransitionSource(name)
    THEN [raised |-> TRUE, instance |-> instance]
    ELSE [raised |-> FALSE,
          instance |-> [MethodBody(name, instance) EXCEPT !.status = TransitionTarget(name)]]

\* a PayrollPeriod as created: status DRAFT, zero statistics, no approval
NewPeriod ==
    [ status |-> "DRAFT", approved_at |-> FALSE, total_gross |-> 0,
      total_deductions |-> 0, total_net |-> 0, employee_count |-> 0 ]


(***************************************************************************)
(* Initial state.                                                          *)
(***************************************************************************)
NoObj == [loaded |-> FALSE]
NoMem == [employee |-> "none"]
NoSnap == [taken |-> FALSE]
NoPass == [result |-> "none", computed |-> {}, inputs |-> NoSnap, snap |-> NoSnap,
           prev |-> NoSnap, prior |-> "none", stale |-> FALSE]
NoOutcome == [proc |-> "none", result |-> "none", error |-> "none", at |-> "none"]
NoCall == [name |-> "none"]

NoHelperCall == [fn |-> "none"]

\* the database after the period was created, and no request in progress
Fresh ==
    /\ period = NewPeriod
    /\ payslips = [e \in Employees |-> NoRow]
    /\ allowRows = [e \in Employees |-> EmptyBag]
    /\ dedRows = [e \in Employees |-> EmptyBag]
    /\ dedTypes = [c \in DeductionCodes |-> SeededRule]
    /\ ruleOrder = DependencyOrder
    /\ allowActive = AllowanceCodes
    /\ work = [e \in Employees |-> WorkData]
    /\ pc = [a \in Actors |-> "idle"]
    /\ proc = [a \in Actors |-> "none"]
    /\ obj = [a \in Actors |-> NoObj]
    /\ queue = [a \in Actors |-> << >>]
    /\ mem = [a \in Actors |-> NoMem]
    /\ ret = [a \in Actors |-> {}]
    /\ failed = [a \in Actors |-> EmptyDict]
    /\ outcome = [a \in Actors |-> NoOutcome]
    /\ last = NoCall
    /\ pass = [e \in Employees |-> NoPass]
    /\ starts = 0
    /\ faults = 0
    /\ edits = 0
    /\ inserted = [e \in Employees |-> 0]
    /\ adjustments = [e \in Employees |-> {}]

Init ==
    /\ Fresh
    /\ empStatus = [e \in Employees |-> "ACTIVE"]
    /\ call = NoHelperCall

(***************************************************************************)
(* Control: entering and leaving a handler.                                *)
(***************************************************************************)
Goto(a, p) == pc' = [pc EXCEPT ![a] = p]

\* a handler or engine entry point begins for actor a
Enter(a, p, first) ==
    /\ pc' = [pc EXCEPT ![a] = first]
    /\ proc' = [proc EXCEPT ![a] = p]
    /\ outcome' = [outcome EXCEPT ![a] = NoOutcome]
    /\ ret' = [ret EXCEPT ![a] = {}]
    /\ failed' = [failed EXCEPT ![a] = EmptyDict]

\* the handler ends; its locals are dropped
Leave(a, result, error) ==
    /\ pc' = [pc EXCEPT ![a] = "idle"]
    /\ proc' = [proc EXCEPT ![a] = "none"]
    /\ outcome' = [outcome EXCEPT ![a] =
                      [proc |-> proc[a], result |-> result, error |-> error,
                       at |-> pc[a]]]
    /\ obj' = [obj EXCEPT ![a] = NoObj]
    /\ queue' = [queue EXCEPT ![a] = << >>]
    /\ mem' = [mem EXCEPT ![a] = NoMem]

\* get_object / objects.get: a fresh in-memory copy of the row
Loaded(row) == [loaded |-> TRUE] @@ row
\* save(): every column of the row is written from the instance
Saved(instance) == [f \in DOMAIN NewPeriod |-> instance[f]]

Inputs(e) ==
    [ taken |-> TRUE, work |-> work[e], dedTypes |-> dedTypes,
      ruleOrder |-> ruleOrder, allowActive |-> allowActive ]

(***************************************************************************)
(* PayrollCalculator: calculate_for_employee, step by step.  Every ORM     *)
(* statement commits on its own (autocommit, no transaction.atomic).       *)
(***************************************************************************)
\* calculate_for_employee raised for employee e
RaiseInEmployee(a, e, kind, computed, inputs) ==
    /\ pass' = [pass EXCEPT ![e] =
                   [result |-> kind, computed |-> computed, inputs |-> inputs,
                    snap |-> NoSnap, prev |-> NoSnap, prior |-> "none",
                    stale |-> FALSE]]
    /\ IF CatchesEmployeeError(proc[a])
       THEN /\ failed' = [failed EXCEPT ![a] = (e :> kind) @@ @]
            /\ queue' = [queue EXCEPT ![a] = Tail(@)]
            /\ mem' = [mem EXCEPT ![a] = NoMem]
            /\ Goto(a, "employee")
            /\ UNCHANGED << proc, obj, outcome, ret >>
       ELSE /\ failed' = [failed EXCEPT ![a] = (e :> kind) @@ @]
            /\ Leave(a, "error", kind)
            /\ UNCHANGED ret

\* calculate_for_employee returned the payslip of employee e
ReturnPayslip(a, e, snap) ==
    /\ pass' = [pass EXCEPT ![e] =
                   [result |-> "ok", computed |-> mem[a].computed,
                    inputs |-> mem[a].inputs, snap |-> snap,
                    prev |-> IF @.result = "ok" /\ @.inputs = mem[a].inputs
                             THEN @.snap ELSE NoSnap,
                    prior |-> IF @.inputs = mem[a].inputs THEN @.result ELSE "none",
                    stale |-> mem[a].stale]]
    /\ ret' = [ret EXCEPT ![a] = @ \cup {e}]
    /\ IF RunsLoop(proc[a])
       THEN /\ queue' = [queue EXCEPT ![a] = Tail(@)]
            /\ mem' = [mem EXCEPT ![a] = NoMem]
            /\ Goto(a, "employee")
            /\ UNCHANGED << proc, obj, outcome >>
       ELSE Leave(a, "ok", "none")
    /\ UNCHANGED failed

\* a payslip written with objects.create, whatever exists
AlwaysCreates(row) == TRUE

\* update_or_create: the row is INSERTed when get() finds none, else UPDATEd
UpsertCreates(row) == ~row.exists

\* the payslip has a detail row of a type that the new maps no longer hold
HasStaleRow(e, c) ==
    \/ \E r \in BagToSet(allowRows[e]) :
           \A i \in 1..Len(c.allowances) : c.allowances[i].code # r.allowance_type
    \/ \E r \in BagToSet(dedRows[e]) : r.deduction_type \notin DOMAIN c.deductions

\* steps 1-8: compute, then Payslip.objects.update_or_create
CalculateAndUpsert(a) ==
    /\ pc[a] = "employee"
    /\ queue[a] # << >>
    /\ LET e == Head(queue[a])
           c == Calculation(e, work, dedTypes, ruleOrder, allowActive)
       IN  IF RaisesKeyError(c)
           THEN /\ RaiseInEmployee(a, e, "KeyError", DOMAIN c.deductions, Inputs(e))
                /\ UNCHANGED << payslips, inserted >>
           ELSE /\ payslips' = [payslips EXCEPT ![e] = PayslipDefaults(c)]
                /\ inserted' = [inserted EXCEPT ![e] =
                                    IF UpsertCreates(payslips[e]) /\ @ < 2
                                    THEN @ + 1 ELSE @]
                /\ mem' = [mem EXCEPT ![a] =
                              [ employee |-> e,
                                computed |-> DOMAIN c.deductions,
                                inputs |-> Inputs(e),
                                allowances |-> c.allowances,
                                deductions |-> c.deduction_rows,
                                stale |-> HasStaleRow(e, c),
                                todo |-> << >> ]]
                /\ Goto(a, "delete_allowances")
                /\ UNCHANGED << proc, obj, queue, ret, failed, outcome, pass >>
    /\ UNCHANGED << period, allowRows, dedRows, inputVars, last, starts, faults, edits,
                    adjustments, call >>

\* PayslipAllowance/PayslipDeduction.objects.filter(payslip=payslip).delete():
\* nothing references the detail rows, so the delete cascades to no other
\* table and the payslip's PayrollAdjustment rows stay
AdjustmentsAfterDetailDelete(rows) == rows

\* allowance rows saved without deleting the old ones
AllowanceRowsKept(rows) == rows

\* _save_allowance_details: PayslipAllowance.objects.filter(payslip).delete()
AllowanceRowsAfterDelete(rows) == EmptyBag

DeleteAllowances(a) ==
    /\ pc[a] = "delete_allowances"
    /\ LET e == mem[a].employee
       IN  /\ allowRows' = [allowRows EXCEPT ![e] = AllowanceRowsAfterDelete(@)]
           /\ adjustments' = [adjustments EXCEPT ![e] = AdjustmentsAfterDetailDelete(@)]
           /\ mem' = [mem EXCEPT ![a].todo = mem[a].allowances]
           /\ Goto(a, IF mem[a].allowances = << >>
                      THEN "delete_deductions" ELSE "insert_allowances")
    /\ UNCHANGED << period, payslips, dedRows, inputVars, proc, obj, queue, ret,
                    failed, outcome, last, pass, starts, faults, edits, inserted, call >>

\* _save_allowance_details: one PayslipAllowance.objects.create
InsertAllowance(a) ==
    /\ pc[a] = "insert_allowances"
    /\ LET e == mem[a].employee
           row == PayslipAllowance(Head(mem[a].todo))
       IN  /\ allowRows' = [allowRows EXCEPT ![e] = @ (+) SetToBag({row})]
           /\ mem' = [mem EXCEPT ![a].todo = Tail(@)]
           /\ Goto(a, IF Tail(mem[a].todo) = << >>
                      THEN "delete_deductions" ELSE "insert_allowances")
    /\ UNCHANGED << period, payslips, dedRows, inputVars, proc, obj, queue, ret,
                    failed, outcome, last, pass, starts, faults, edits, inserted, adjustments, call >>

\* detail rows saved without deleting the old ones
DeductionRowsKept(rows) == rows

\* _save_deduction_details: PayslipDeduction.objects.filter(payslip).delete()
DeductionRowsAfterDelete(rows) == EmptyBag

DeleteDeductions(a) ==
    /\ pc[a] = "delete_deductions"
    /\ LET e == mem[a].employee
       IN  /\ dedRows' = [dedRows EXCEPT ![e] = DeductionRowsAfterDelete(@)]
           /\ adjustments' = [adjustments EXCEPT ![e] = AdjustmentsAfterDetailDelete(@)]
           /\ mem' = [mem EXCEPT ![a].todo = mem[a].deductions]
           /\ Goto(a, "insert_deductions")
    /\ UNCHANGED << period, payslips, allowRows, inputVars, proc, obj, queue, ret,
                    failed, outcome, last, pass, starts, faults, edits, inserted, call >>

\* _save_deduction_details: one PayslipDeduction.objects.create; after the last
\* one calculate_for_employee returns the payslip
InsertDeduction(a) ==
    /\ pc[a] = "insert_deductions"
    /\ LET e == mem[a].employee
           row == PayslipDeduction(Head(mem[a].todo))
           rows == dedRows[e] (+) SetToBag({row})
       IN  /\ dedRows' = [dedRows EXCEPT ![e] = rows]
           /\ IF Tail(mem[a].todo) # << >>
              THEN /\ mem' = [mem EXCEPT ![a].todo = Tail(@)]
                   /\ UNCHANGED << pc, proc, obj, queue, ret, failed, outcome, pass >>
              ELSE ReturnPayslip(a, e, [ taken |-> TRUE, payslip |-> payslips[e],
                                         allowances |-> allowRows[e],
                                         deductions |-> rows ])
    /\ UNCHANGED << period, payslips, allowRows, inputVars, last, starts, faults, edits, inserted, adjustments, call >>

\* the loop of calculate_all_employees is over: _update_period_statistics reads
\* the aggregates into the in-memory period
Aggregate(a) ==
    /\ pc[a] = "employee"
    /\ queue[a] = << >>
    /\ obj' = [obj EXCEPT ![a] =
                  [f \in DOMAIN @ |->
                      IF f \in DOMAIN PeriodAggregates(payslips, ret[a])
                      THEN PeriodAggregates(payslips, ret[a])[f] ELSE @[f]]]
    /\ Goto(a, "save_statistics")
    /\ UNCHANGED << dbVars, inputVars, proc, queue, mem, ret, failed, outcome,
                    last, pass, starts, faults, edits, inserted, adjustments, call >>

\* _update_period_statistics: self.period.save(); calculate_all_employees returns
SaveStatistics(a) ==
    /\ pc[a] = "save_statistics"
    /\ period' = Saved(obj[a])
    /\ IF proc[a] = "calculate_payroll_action"
       THEN /\ Goto(a, "submit")
            /\ UNCHANGED << proc, obj, queue, mem, outcome >>
       ELSE Leave(a, "ok", "none")
    /\ UNCHANGED << payslips, allowRows, dedRows, inputVars, ret, failed, last,
                    pass, starts, faults, edits, inserted, adjustments, call >>

\* a caller builds PayrollCalculator(period) and runs calculate_all_employees
CallCalculateAll(a) ==
    /\ pc[a] = "idle"
    /\ Enter(a, "calculate_all_employees", "employee")
    /\ obj' = [obj EXCEPT ![a] = Loaded(period)]
    /\ queue' = [queue EXCEPT ![a] = ActiveEmployees(empStatus, EmployeeOrder)]
    /\ UNCHANGED << dbVars, inputVars, mem, last, pass, starts, faults, edits, inserted, adjustments, call >>

\* a caller builds PayrollCalculator(period) and runs calculate_for_employee(e)
CallCalculateOne(a, e) ==
    /\ pc[a] = "idle"
    /\ Enter(a, "calculate_for_employee", "employee")
    /\ obj' = [obj EXCEPT ![a] = Loaded(period)]
    /\ queue' = [queue EXCEPT ![a] = << e >>]
    /\ UNCHANGED << dbVars, inputVars, mem, last, pass, starts, faults, edits, inserted, adjustments, call >>


(***************************************************************************)
(* PayrollPeriodAdmin: the three row actions.                              *)
(***************************************************************************)
\* the handler loads the period and checks its status; a wrong status ends the
\* request with a warning
OpenAction(a, handler, required, first) ==
    /\ pc[a] = "idle"
    /\ IF period.status # required
       THEN /\ outcome' = [outcome EXCEPT ![a] =
                              [proc |-> handler, result |-> "warning", error |-> "none",
                               at |-> "check"]]
            /\ ret' = [ret EXCEPT ![a] = {}]
            /\ failed' = [failed EXCEPT ![a] = EmptyDict]
            /\ UNCHANGED << pc, proc, obj >>
       ELSE /\ Enter(a, handler, first)
            /\ obj' = [obj EXCEPT ![a] = Loaded(period)]
    /\ UNCHANGED << dbVars, inputVars, queue, mem, last, pass, starts, faults, edits, inserted, adjustments, call >>

\* calculate_payroll_action: get_object and the DRAFT check
CalculateActionOpen(a) == OpenAction(a, "calculate_payroll_action", "DRAFT", "start")

\* calculate_payroll_action: period.start_calculation(); period.save(); then
\* calculate_all_employees begins
CalculateActionStart(a) ==
    /\ pc[a] = "start"
    /\ LET t == Transition("start_calculation", obj[a])
       IN  IF t.raised
           THEN /\ Leave(a, "error", "TransitionNotAllowed")
                /\ UNCHANGED << period, starts >>
           ELSE /\ period' = Saved(t.instance)
                /\ obj' = [obj EXCEPT ![a] = t.instance]
                /\ queue' = [queue EXCEPT ![a] = ActiveEmployees(empStatus, EmployeeOrder)]
                /\ starts' = IF starts < 2 THEN starts + 1 ELSE starts
                /\ Goto(a, "employee")
                /\ UNCHANGED << proc, mem, outcome >>
    /\ UNCHANGED << payslips, allowRows, dedRows, inputVars, ret, failed, last,
                    pass, faults, edits, inserted, adjustments, call >>

\* calculate_payroll_action: period.submit_for_approval(); period.save()
CalculateActionSubmit(a) ==
    /\ pc[a] = "submit"
    /\ LET t == Transition("submit_for_approval", obj[a])
       IN  IF t.raised
           THEN /\ Leave(a, "error", "TransitionNotAllowed")
                /\ UNCHANGED period
           ELSE /\ period' = Saved(t.instance)
                /\ Leave(a, "ok", "none")
    /\ UNCHANGED << payslips, allowRows, dedRows, inputVars, ret, failed, last,
                    pass, starts, faults, edits, inserted, adjustments, call >>

\* approve_action: get_object and the PENDING_APPROVAL check
ApproveActionOpen(a) == OpenAction(a, "approve_action", "PENDING_APPROVAL", "approve")

\* approve_action: period.approve(); period.save()
ApproveActionSave(a) ==
    /\ pc[a] = "approve"
    /\ LET t == Transition("approve", obj[a])
       IN  IF t.raised
           THEN /\ Leave(a, "error", "TransitionNotAllowed")
                /\ UNCHANGED period
           ELSE /\ period' = Saved(t.instance)
                /\ Leave(a, "ok", "none")
    /\ UNCHANGED << payslips, allowRows, dedRows, inputVars, ret, failed, last,
                    pass, starts, faults, edits, inserted, adjustments, call >>

\* mark_as_paid_action: get_object and the APPROVED check
PaidActionOpen(a) == OpenAction(a, "mark_as_paid_action", "APPROVED", "mark_as_paid")

\* mark_as_paid_action: period.mark_as_paid(); period.save()
PaidActionSave(a) ==
    /\ pc[a] = "mark_as_paid"
    /\ LET t == Transition("mark_as_paid", obj[a])
       IN  IF t.raised
           THEN /\ Leave(a, "error", "TransitionNotAllowed")
                /\ UNCHANGED period
           ELSE /\ period' = Saved(t.instance)
                /\ obj' = [obj EXCEPT ![a] = t.instance]
                /\ Goto(a, "cascade")
                /\ UNCHANGED << proc, queue, mem, outcome >>
    /\ UNCHANGED << payslips, allowRows, dedRows, inputVars, ret, failed, last,
                    pass, starts, faults, edits, inserted, adjustments, call >>

\* mark_as_paid_action: period.payslips.update(status=PAID)
PaidActionCascade(a) ==
    /\ pc[a] = "cascade"
    /\ payslips' = [e \in Employees |->
                       IF payslips[e].exists
                       THEN [payslips[e] EXCEPT !.status = "PAID"] ELSE payslips[e]]
    /\ Leave(a, "ok", "none")
    /\ UNCHANGED << period, allowRows, dedRows, inputVars, ret, failed, last,
                    pass, starts, faults, edits, inserted, adjustments, call >>

(***************************************************************************)
(* Direct calls of the transition methods on one loaded PayrollPeriod.     *)
(***************************************************************************)
LoadPeriod(a) ==
    /\ pc[a] = "idle"
    /\ Enter(a, "transition", "direct")
    /\ obj' = [obj EXCEPT ![a] = Loaded(period)]
    /\ UNCHANGED << dbVars, inputVars, queue, mem, last, pass, starts, faults, edits, inserted, adjustments, call >>

\* period.<name>() and, when it did not raise, period.save()
CallTransition(a, name) ==
    /\ pc[a] = "direct"
    /\ LET t == Transition(name, obj[a])
           saved == IF t.raised THEN period ELSE Saved(t.instance)
       IN  /\ obj' = [obj EXCEPT ![a] = t.instance]
           /\ period' = saved
           /\ last' = [ name |-> name, raised |-> t.raised,
                        before |-> Saved(obj[a]), after |-> Saved(t.instance),
                        db_before |-> period, db_after |-> saved ]
           /\ starts' = IF name = "start_calculation" /\ ~t.raised /\ starts < 2
                        THEN starts + 1 ELSE starts
    /\ UNCHANGED << payslips, allowRows, dedRows, inputVars, pc, proc, queue, mem,
                    ret, failed, outcome, pass, faults, edits, inserted, adjustments, call >>

DropPeriod(a) ==
    /\ pc[a] = "direct"
    /\ Leave(a, "ok", "none")
    /\ UNCHANGED << dbVars, inputVars, ret, failed, last, pass, starts, faults, edits, inserted, adjustments, call >>

(***************************************************************************)
(* Database errors: an ORM write raises instead of writing.                *)
(***************************************************************************)
EmployeeSteps ==
    {"delete_allowances", "insert_allowances", "delete_deductions", "insert_deductions"}
HandlerSteps ==
    {"start", "save_statistics", "submit", "approve", "mark_as_paid", "cascade"}

\* update_or_create raises
FaultInUpsert(a) ==
    /\ faults < MaxFaults
    /\ pc[a] = "employee"
    /\ queue[a] # << >>
    /\ LET e == Head(queue[a])
           c == Calculation(e, work, dedTypes, ruleOrder, allowActive)
       IN  /\ ~RaisesKeyError(c)
           /\ RaiseInEmployee(a, e, "DatabaseError", DOMAIN c.deductions, Inputs(e))
    /\ faults' = faults + 1
    /\ UNCHANGED << dbVars, inputVars, last, starts, edits, inserted, adjustments, call >>

\* a delete or create of detail rows raises
FaultInDetails(a) ==
    /\ faults < MaxFaults
    /\ pc[a] \in EmployeeSteps
    /\ RaiseInEmployee(a, mem[a].employee, "DatabaseError", mem[a].computed,
                       mem[a].inputs)
    /\ faults' = faults + 1
    /\ UNCHANGED << dbVars, inputVars, last, starts, edits, inserted, adjustments, call >>

\* a save() or update() of the handler raises
FaultInHandler(a) ==
    /\ faults < MaxFaults
    /\ pc[a] \in HandlerSteps
    /\ Leave(a, "error", "DatabaseError")
    /\ faults' = faults + 1
    /\ UNCHANGED << dbVars, inputVars, ret, failed, last, pass, starts, edits, inserted, adjustments, call >>

(***************************************************************************)
(* Master-data edits through the admin.                                    *)
(***************************************************************************)
\* no request is in progress (one caller at a time)
Quiet == \A a \in Actors : pc[a] = "idle"

\* the codes whose DeductionType rows get edited: the bases of the derived rules
EditableCodes == {"HEALTH", "INCOME_TAX"}
\* the codes whose AllowanceType rows get edited
EditableAllowances == {"MEAL", "OVERTIME"}

EditDeductionType(c, field) ==
    /\ edits < MaxEdits
    /\ Quiet
    /\ dedTypes[c].exists
    /\ dedTypes' = [dedTypes EXCEPT ![c][field] = ~@]
    /\ edits' = edits + 1
    /\ UNCHANGED << dbVars, ruleOrder, allowActive, work, empStatus, pc, proc, obj,
                    queue, mem,
                    ret, failed, outcome, last, pass, starts, faults, inserted, adjustments, call >>

\* on_delete=PROTECT: a DeductionType with PayslipDeduction rows cannot be deleted
DeleteDeductionType(c) ==
    /\ edits < MaxEdits
    /\ Quiet
    /\ dedTypes[c].exists
    /\ \A e \in Employees : \A r \in BagToSet(dedRows[e]) : r.deduction_type # c
    /\ dedTypes' = [dedTypes EXCEPT ![c].exists = FALSE]
    /\ edits' = edits + 1
    /\ UNCHANGED << dbVars, ruleOrder, allowActive, work, empStatus, pc, proc, obj,
                    queue, mem,
                    ret, failed, outcome, last, pass, starts, faults, inserted, adjustments, call >>

EditAllowanceType(code) ==
    /\ edits < MaxEdits
    /\ Quiet
    /\ allowActive' = IF code \in allowActive
                      THEN allowActive \ {code} ELSE allowActive \cup {code}
    /\ edits' = edits + 1
    /\ UNCHANGED << dbVars, dedTypes, ruleOrder, work, empStatus, pc, proc, obj,
                    queue, mem,
                    ret, failed, outcome, last, pass, starts, faults, inserted, adjustments, call >>

\* an employee's status is edited (leave, resignation, return)
EditEmployeeStatus(e, status) ==
    /\ edits < MaxEdits
    /\ Quiet
    /\ status # empStatus[e]
    /\ empStatus' = [empStatus EXCEPT ![e] = status]
    /\ edits' = edits + 1
    /\ UNCHANGED << dbVars, dedTypes, ruleOrder, allowActive, work, pc, proc, obj,
                    queue, mem,
                    ret, failed, outcome, last, pass, starts, faults, inserted, adjustments, call >>

\* the amounts entered for manual adjustments (negative for a deduction)
AdjustmentAmounts == { KRW(5), 0 - KRW(5) }

\* a PayrollAdjustment is entered for the employee's payslip through the admin;
\* the row references the Payslip row (its ordinal among the rows inserted
\* for the employee)
AddAdjustment(e, amount, approved) ==
    /\ edits < MaxEdits
    /\ Quiet
    /\ payslips[e].exists
    /\ adjustments' = [adjustments EXCEPT ![e] =
                           @ \cup { [ payslip |-> inserted[e], amount |-> MoneyField(amount),
                                      approved_at |-> approved ] }]
    /\ edits' = edits + 1
    /\ UNCHANGED << dbVars, inputVars, pc, proc, obj, queue, mem, ret, failed, outcome,
                    last, pass, starts, faults, inserted, call >>

\* the name of a DeductionType is edited: the rows now sort in another order
RenameDeductionTypes ==
    /\ edits < MaxEdits
    /\ Quiet
    /\ ruleOrder' \in RuleOrders \ {ruleOrder}
    /\ edits' = edits + 1
    /\ UNCHANGED << dbVars, dedTypes, allowActive, work, empStatus, pc, proc, obj,
                    queue, mem,
                    ret, failed, outcome, last, pass, starts, faults, inserted, adjustments, call >>

(***************************************************************************)
(* Specifications.                                                         *)
(***************************************************************************)
Single == {"A1"}

\* the workflow, one caller at a time: the admin actions (with the engine run
\* of calculate_payroll_action) and direct calls of the transition methods
Next ==
    \/ \E a \in Single : CalculateActionOpen(a)
    \/ \E a \in Single : CalculateActionStart(a)
    \/ \E a \in Single : CalculateActionSubmit(a)
    \/ \E a \in Single : ApproveActionOpen(a)
    \/ \E a \in Single : ApproveActionSave(a)
    \/ \E a \in Single : PaidActionOpen(a)
    \/ \E a \in Single : PaidActionSave(a)
    \/ \E a \in Single : PaidActionCascade(a)
    \/ \E a \in Single : CalculateAndUpsert(a)
    \/ \E a \in Single : DeleteAllowances(a)
    \/ \E a \in Single : InsertAllowance(a)
    \/ \E a \in Single : DeleteDeductions(a)
    \/ \E a \in Single : InsertDeduction(a)
    \/ \E a \in Single : Aggregate(a)
    \/ \E a \in Single : SaveStatistics(a)
    \/ \E a \in Single : LoadPeriod(a)
    \/ \E a \in Single, name \in Transitions : CallTransition(a, name)
    \/ \E a \in Single : DropPeriod(a)
    \/ \E a \in Single : FaultInUpsert(a)
    \/ \E a \in Single : FaultInDetails(a)
    \/ \E a \in Single : FaultInHandler(a)

Spec == Init /\ [][Next]_vars

\* calculate_all_employees, one caller at a time: batch runs, repeated and
\* retried, with master-data edits between them
NextBatch ==
    \/ \E a \in Single : CallCalculateAll(a)
    \/ \E a \in Single : CalculateAndUpsert(a)
    \/ \E a \in Single : DeleteAllowances(a)
    \/ \E a \in Single : InsertAllowance(a)
    \/ \E a \in Single : DeleteDeductions(a)
    \/ \E a \in Single : InsertDeduction(a)
    \/ \E a \in Single : Aggregate(a)
    \/ \E a \in Single : SaveStatistics(a)
    \/ \E a \in Single : FaultInUpsert(a)
    \/ \E a \in Single : FaultInDetails(a)
    \/ \E a \in Single : FaultInHandler(a)
    \/ \E c \in EditableCodes, f \in {"is_active", "is_statutory"} : EditDeductionType(c, f)
    \/ \E c \in EditableCodes : DeleteDeductionType(c)
    \/ \E code \in EditableAllowances : EditAllowanceType(code)
    \/ RenameDeductionTypes

SpecBatch == Init /\ [][NextBatch]_vars

\* calculate_for_employee, one caller at a time: passes for single employees,
\* repeated and retried, with master-data edits between them
NextEmployee ==
    \/ \E a \in Single, e \in Employees : CallCalculateOne(a, e)
    \/ \E a \in Single : CalculateAndUpsert(a)
    \/ \E a \in Single : DeleteAllowances(a)
    \/ \E a \in Single : InsertAllowance(a)
    \/ \E a \in Single : DeleteDeductions(a)
    \/ \E a \in Single : InsertDeduction(a)
    \/ \E a \in Single : FaultInUpsert(a)
    \/ \E a \in Single : FaultInDetails(a)
    \/ \E c \in EditableCodes, f \in {"is_active", "is_statutory"} : EditDeductionType(c, f)
    \/ \E c \in EditableCodes : DeleteDeductionType(c)
    \/ \E code \in EditableAllowances : EditAllowanceType(code)
    \/ RenameDeductionTypes

SpecEmployee == Init /\ [][NextEmployee]_vars

\* calculate_all_employees, one caller at a time, over a changing roster:
\* batch runs with edits of the employees' statuses between them
NextRoster ==
    \/ \E a \in Single : CallCalculateAll(a)
    \/ \E a \in Single : CalculateAndUpsert(a)
    \/ \E a \in Single : DeleteAllowances(a)
    \/ \E a \in Single : InsertAllowance(a)
    \/ \E a \in Single : DeleteDeductions(a)
    \/ \E a \in Single : InsertDeduction(a)
    \/ \E a \in Single : Aggregate(a)
    \/ \E a \in Single : SaveStatistics(a)
    \/ \E a \in Single : FaultInUpsert(a)
    \/ \E a \in Single : FaultInDetails(a)
    \/ \E a \in Single : FaultInHandler(a)
    \/ \E e \in Employees, status \in EmployeeStatus : EditEmployeeStatus(e, status)

SpecRoster == Init /\ [][NextRoster]_vars

\* calculate_for_employee, one caller at a time, on payslips that carry manual
\* adjustments
NextAdjust ==
    \/ \E a \in Single, e \in Employees : CallCalculateOne(a, e)
    \/ \E a \in Single : CalculateAndUpsert(a)
    \/ \E a \in Single : DeleteAllowances(a)
    \/ \E a \in Single : InsertAllowance(a)
    \/ \E a \in Single : DeleteDeductions(a)
    \/ \E a \in Single : InsertDeduction(a)
    \/ \E a \in Single : FaultInUpsert(a)
    \/ \E a \in Single : FaultInDetails(a)
    \/ \E e \in Employees, amount \in AdjustmentAmounts, approved \in BOOLEAN :
           AddAdjustment(e, amount, approved)

SpecAdjust == Init /\ [][NextAdjust]_vars

\* two admin users working on the same period at once
NextConc ==
    \/ \E a \in Actors : CalculateActionOpen(a)
    \/ \E a \in Actors : CalculateActionStart(a)
    \/ \E a \in Actors : CalculateActionSubmit(a)
    \/ \E a \in Actors : ApproveActionOpen(a)
    \/ \E a \in Actors : ApproveActionSave(a)
    \/ \E a \in Actors : PaidActionOpen(a)
    \/ \E a \in Actors : PaidActionSave(a)
    \/ \E a \in Actors : PaidActionCascade(a)
    \/ \E a \in Actors : CalculateAndUpsert(a)
    \/ \E a \in Actors : DeleteAllowances(a)
    \/ \E a \in Actors : InsertAllowance(a)
    \/ \E a \in Actors : DeleteDeductions(a)
    \/ \E a \in Actors : InsertDeduction(a)
    \/ \E a \in Actors : Aggregate(a)
    \/ \E a \in Actors : SaveStatistics(a)

\* as Init, with one employee active
InitConc ==
    /\ Fresh
    /\ empStatus = [e \in Employees |-> IF e = "E1" THEN "ACTIVE" ELSE "RESIGNED"]
    /\ call = NoHelperCall

SpecConc == InitConc /\ [][NextConc]_vars

\* a caller runs calculate_all_employees while another caller applies
\* transitions to the same period
Runner == {"A1"}
Clerk == {"A2"}

NextRun ==
    \/ \E a \in Runner : CallCalculateAll(a)
    \/ \E a \in Runner : CalculateAndUpsert(a)
    \/ \E a \in Runner : DeleteAllowances(a)
    \/ \E a \in Runner : InsertAllowance(a)
    \/ \E a \in Runner : DeleteDeductions(a)
    \/ \E a \in Runner : InsertDeduction(a)
    \/ \E a \in Runner : Aggregate(a)
    \/ \E a \in Runner : SaveStatistics(a)
    \/ \E a \in Clerk : LoadPeriod(a)
    \/ \E a \in Clerk, name \in Transitions : CallTransition(a, name)
    \/ \E a \in Clerk : DropPeriod(a)

SpecRun == InitConc /\ [][NextRun]_vars

\* direct calls of the engine's pure helpers, on amounts in 1/100 won (the
\* scale of the MoneyField columns)
CentScale == 100
Won(n) == n * CentScale

\* whole-won gross amounts around the band limits and across the schedule
TaxGross ==
    { Won(b + d) : b \in {1500000, 4500000, 8800000}, d \in -2..2 }
        \cup { Won(k * 500000) : k \in 0..20 }
        \cup { Won(1), Won(99) }

\* monthly base salaries
BaseAmounts == { Won(k * 250000) : k \in 0..16 } \cup { Won(100), Won(1000), Won(2000001) }

\* gross salaries and max_amount settings for the PENSION rule
PensionGross == { Won(0), Won(100), Won(1000000), Won(3000000), Won(5900000), Won(8000000) }
ClampAmounts == { None, 0, Won(1), Won(135000), Won(265500), Won(1000000) }

\* an employee's job position: none, one without allowance, one with
JobPositions ==
    { [position |-> FALSE, allowance |-> 0], [position |-> TRUE, allowance |-> 0],
      [position |-> TRUE, allowance |-> KRW(50)] }

\* LeaveRequest rows: a day inside the period, a long leave that began before
\* the period and ends in it, a paid leave, a request not yet approved, a leave
\* after the period, and a leave of another employee
LeaveRequests ==
    { [id |-> "in_period", employee |-> "E1", state |-> "APPROVED", is_paid |-> FALSE,
       start_date |-> 1, end_date |-> 1, total_days |-> 1],
      [id |-> "long", employee |-> "E1", state |-> "APPROVED", is_paid |-> FALSE,
       start_date |-> 1 - 44, end_date |-> 1, total_days |-> 45],
      [id |-> "paid", employee |-> "E1", state |-> "APPROVED", is_paid |-> TRUE,
       start_date |-> 1, end_date |-> 2, total_days |-> 2],
      [id |-> "pending", employee |-> "E1", state |-> "PENDING", is_paid |-> FALSE,
       start_date |-> 1, end_date |-> 2, total_days |-> 2],
      [id |-> "later", employee |-> "E1", state |-> "APPROVED", is_paid |-> FALSE,
       start_date |-> 3, end_date |-> 4, total_days |-> 2],
      [id |-> "other", employee |-> "E2", state |-> "APPROVED", is_paid |-> FALSE,
       start_date |-> 1, end_date |-> 2, total_days |-> 2] }

HelperCalls ==
    { [fn |-> "_calculate_income_tax", args |-> << g, h >>, done |-> FALSE,
       result |-> << >>] : g \in TaxGross, h \in TaxGross }
    \cup
    { [fn |-> "_calculate_base_salary", args |-> << m, d >>, done |-> FALSE,
       result |-> << >>] : m \in BaseAmounts, d \in 0..MaxUnpaidDays }
    \cup
    { [fn |-> "PENSION", args |-> << g, DefaultRate["PENSION"], m >>, done |-> FALSE,
       result |-> << >>] : g \in PensionGross, m \in ClampAmounts }
    \cup
    { [fn |-> "calculate_for_employee", args |-> << e, requests >>, done |-> FALSE,
       result |-> << >>] : e \in Employees, requests \in SUBSET LeaveRequests }
    \cup
    { [fn |-> "_calculate_allowances", args |-> << active, j >>, done |-> FALSE,
       result |-> << >>] : active \in SUBSET AllowanceCodes, j \in JobPositions }

InitHelpers ==
    /\ Fresh
    /\ empStatus = [e \in Employees |-> "ACTIVE"]
    /\ call \in HelperCalls

\* _calculate_income_tax applied to each of two gross amounts
CallIncomeTax ==
    /\ call.fn = "_calculate_income_tax"
    /\ ~call.done
    /\ call' = [call EXCEPT !.done = TRUE,
                            !.result = << IncomeTaxAt(call.args[1], CentScale),
                                          IncomeTaxAt(call.args[2], CentScale) >>]
    /\ UNCHANGED stateVars

\* _calculate_base_salary applied to a contract's monthly base and the unpaid
\* leave days
CallBaseSalary ==
    /\ call.fn = "_calculate_base_salary"
    /\ ~call.done
    /\ call' = [call EXCEPT !.done = TRUE,
                            !.result = << BaseSalaryOf(call.args[1], call.args[2]) >>]
    /\ UNCHANGED stateVars

\* the PENSION branch of _calculate_deductions applied to a gross salary, the
\* rule's rate and its max_amount
CallPension ==
    /\ call.fn = "PENSION"
    /\ ~call.done
    /\ call' = [call EXCEPT !.done = TRUE,
                            !.result = << PensionAmount(call.args[1], call.args[2],
                                                        call.args[3]) >>]
    /\ UNCHANGED stateVars

\* step 3 of calculate_for_employee: _calculate_allowances for an employee
\* with this job position, over the AllowanceType rows with is_active set,
\* and the sum of the amounts
CallAllowances ==
    /\ call.fn = "_calculate_allowances"
    /\ ~call.done
    /\ LET allowances == AllowanceLoop(AllowanceTypes, call.args[1], call.args[2])
       IN  call' = [call EXCEPT !.done = TRUE,
                                !.result = << allowances, SumAmounts(allowances) >>]
    /\ UNCHANGED stateVars

\* steps 1-8 of calculate_for_employee for an employee with these leave
\* requests on file (the other inputs as seeded): the Payslip row written
CallCalculation ==
    /\ call.fn = "calculate_for_employee"
    /\ ~call.done
    /\ LET employee == call.args[1]
           unpaid_leave_days ==
               SumTotalDays(UnpaidLeaveRequests(call.args[2], employee))
           w == [work EXCEPT ![employee].unpaid_leave_days = unpaid_leave_days]
           c == Calculation(employee, w, dedTypes, ruleOrder, allowActive)
       IN  call' = [call EXCEPT !.done = TRUE, !.result = << PayslipDefaults(c) >>]
    /\ UNCHANGED stateVars

NextHelpers ==
    \/ CallCalculation
    \/ CallAllowances
    \/ CallIncomeTax
    \/ CallBaseSalary
    \/ CallPension

SpecHelpers == InitHelpers /\ [][NextHelpers]_vars

(***************************************************************************)
(* Properties.                                                             *)
(***************************************************************************)
StatusChain ==
    <<"DRAFT", "CALCULATING", "PENDING_APPROVAL", "APPROVED", "PAID", "CLOSED">>

\* t is the immediate successor of s in the chain
Successor(s, t) ==
    \E i \in 1..(Len(StatusChain) - 1) : StatusChain[i] = s /\ StatusChain[i + 1] = t

ActiveSet == { e \in Employees : empStatus[e] = "ACTIVE" }

\* the value of a payslip column, 0 when the employee has no payslip
Stored(e, field) == IF payslips[e].exists THEN payslips[e][field] ELSE 0

\* the Payslip column that holds the amount of a deduction code
HeaderField(code) ==
    CASE code = "PENSION" -> "national_pension"
      [] code = "HEALTH" -> "health_insurance"
      [] code = "LONG_TERM_CARE" -> "long_term_care"
      [] code = "EMPLOYMENT" -> "employment_insurance"
      [] code = "INCOME_TAX" -> "income_tax"
      [] code = "RESIDENT_TAX" -> "resident_tax"

\* C1: a transition method called on a period whose status is not the
\* transition's source raises, and leaves the instance (status, approved_at)
\* and the database row as they were; so approve() on DRAFT leaves DRAFT.
C1_InvalidTransitionRejected ==
    (last.name # "none" /\ last.before.status # TransitionSource(last.name))
        => /\ last.raised
           /\ last.after = last.before
           /\ last.db_after = last.db_before

C1_ApproveOnDraftRejected ==
    /\ last.name = "approve"
    /\ last.before.status = "DRAFT"
    /\ last.raised
    /\ period.status = "DRAFT"
    /\ ~period.approved_at

\* C2: with one caller at a time, every change of the period's status goes to
\* the immediate successor in the chain DRAFT .. CLOSED; a transition call
\* succeeds exactly when the status is its source (so the five calls succeed in
\* chain order and any call out of order or repeated is rejected), and a
\* successful call moves the status one step.
C2_StatusFollowsChain ==
    [][ /\ period'.status # period.status => Successor(period.status, period'.status)
        /\ last' # last =>
              /\ last'.raised <=> last'.before.status # TransitionSource(last'.name)
              /\ ~last'.raised =>
                    /\ last'.db_before.status = last'.before.status
                    /\ Successor(last'.db_before.status, last'.db_after.status) ]_vars

C2_ChainCompleted ==
    /\ period.status = "CLOSED"
    /\ last.name = "close_period"
    /\ ~last.raised
    /\ last.before.status = "PAID"

\* C3: at most one start_calculation is applied and saved for one period,
\* however many admin users invoke the calculate action at once.
C3_AtMostOneStartSucceeds == starts <= 1

\* C4: every persisted payslip has gross_salary = base_salary +
\* total_allowances + overtime_pay and net_salary = gross_salary -
\* total_deductions, exactly.
C4_PersistedIdentities ==
    \A e \in Employees :
        payslips[e].exists =>
            /\ payslips[e].gross_salary =
                   payslips[e].base_salary + payslips[e].total_allowances
                   + payslips[e].overtime_pay
            /\ payslips[e].net_salary =
                   payslips[e].gross_salary - payslips[e].total_deductions

\* C5: when calculate_all_employees has ended, every active employee was
\* visited: each is either in the returned list, with its payslip persisted, or
\* among the failures, never both; and if the call raised, it raised in
\* saving the statistics, not in an employee's calculation.
C5_FailureIsolated ==
    \A a \in Actors :
        outcome[a].proc = "calculate_all_employees" =>
            /\ ret[a] \cup DOMAIN failed[a] = ActiveSet
            /\ ret[a] \cap DOMAIN failed[a] = {}
            /\ \A e \in ret[a] : payslips[e].exists /\ pass[e].result = "ok"
            /\ outcome[a].result = "error" => outcome[a].at = "save_statistics"

C5_FirstFailsSecondSucceeds ==
    \E a \in Actors :
        /\ outcome[a].proc = "calculate_all_employees"
        /\ outcome[a].result = "ok"
        /\ "E1" \in DOMAIN failed[a]
        /\ "E2" \in ret[a]
        /\ payslips["E2"].exists

\* C6: after calculate_all_employees has returned, the period's totals are the
\* sums of the corresponding columns over the payslips persisted for the
\* period and employee_count is their number, whatever failed in the pass.
C6_TotalsMatchPersisted ==
    \A a \in Actors :
        (outcome[a].proc = "calculate_all_employees" /\ outcome[a].result = "ok") =>
            /\ period.total_gross =
                   Stored("E1", "gross_salary") + Stored("E2", "gross_salary")
            /\ period.total_deductions =
                   Stored("E1", "total_deductions") + Stored("E2", "total_deductions")
            /\ period.total_net =
                   Stored("E1", "net_salary") + Stored("E2", "net_salary")
            /\ period.employee_count =
                   Cardinality({ e \in Employees : payslips[e].exists })

C6_TotalsWithFailedEmployee ==
    \E a \in Actors :
        /\ outcome[a].proc = "calculate_all_employees"
        /\ outcome[a].result = "ok"
        /\ \E e \in DOMAIN failed[a] : payslips[e].exists
        /\ ret[a] # {}
        /\ period.total_gross > 0

\* C7: a calculation pass made while some recognized deduction rule is
\* missing, inactive or not statutory does not fail with a KeyError.
C7_MissingRuleDoesNotFail ==
    \A e \in Employees :
        (/\ pass[e].result # "none"
         /\ \E c \in DeductionCodes : ~RuleSelected(pass[e].inputs.dedTypes, c))
            => pass[e].result # "KeyError"

\* C8: after a pass in which HEALTH was not computed the employee has a
\* payslip with long_term_care = 0, and after a pass in which INCOME_TAX was
\* not computed a payslip with resident_tax = 0.
C8_DerivedZeroWithoutBase ==
    \A e \in Employees :
        pass[e].result # "none" =>
            /\ "HEALTH" \notin pass[e].computed =>
                   payslips[e].exists /\ payslips[e].long_term_care = 0
            /\ "INCOME_TAX" \notin pass[e].computed =>
                   payslips[e].exists /\ payslips[e].resident_tax = 0

\* C9: a pass of calculate_for_employee that follows a successful pass for the
\* same employee with the same inputs leaves the payslip and the bags of its
\* allowance and deduction rows exactly as the earlier pass left them.
C9_SecondPassSameState ==
    \A e \in Employees :
        (pass[e].result = "ok" /\ pass[e].prev # NoSnap) => pass[e].snap = pass[e].prev

C9_PassRepeated ==
    \E e \in Employees :
        /\ pass[e].result = "ok"
        /\ pass[e].prev # NoSnap
        /\ pass[e].snap.deductions # EmptyBag
        /\ pass[e].snap.allowances # EmptyBag

\* C10: in every state, each payslip's header and its deduction rows come from
\* the same pass: for each deduction code there is exactly one row, and its
\* amount is the header's column for that code.
C10_HeaderAndDetailsAgree ==
    \A e \in Employees :
        payslips[e].exists =>
            \A c \in DeductionCodes :
                \E r \in BagToSet(dedRows[e]) :
                    /\ r.deduction_type = c
                    /\ r.amount = payslips[e][HeaderField(c)]
                    /\ CopiesIn(r, dedRows[e]) = 1
                    /\ \A q \in BagToSet(dedRows[e]) : q.deduction_type = c => q = r

PayslipStatus == {"DRAFT", "CALCULATED", "APPROVED", "PAID"}

\* the payslip status that goes with a period status
PayslipStatusFor(status) ==
    CASE status \in {"DRAFT", "CALCULATING", "PENDING_APPROVAL"} -> "CALCULATED"
      [] status = "APPROVED" -> "APPROVED"
      [] status \in {"PAID", "CLOSED"} -> "PAID"

\* C11: once mark_as_paid has been applied and its caller is done (no
\* mark_as_paid_action is between its save and its payslip update), a period
\* in status PAID has no payslip whose status is not PAID.
C11_PaidPeriodHasPaidPayslips ==
    (period.status = "PAID" /\ \A a \in Actors : pc[a] \notin {"cascade", "direct"})
        => \A e \in Employees : payslips[e].exists => payslips[e].status = "PAID"

\* C12: in every state reached by the admin actions and the engine alone,
\* with no request in progress, every payslip of the period has the status
\* that goes with the period's status: CALCULATED under CALCULATING and
\* PENDING_APPROVAL, APPROVED under APPROVED, PAID under PAID and CLOSED.
C12_PayslipStatusFollowsPeriod ==
    (Quiet /\ last = NoCall /\ faults = 0)
        => \A e \in Employees :
               payslips[e].exists => payslips[e].status = PayslipStatusFor(period.status)

\* C13: the step that ends a run of calculate_all_employees (the save of the
\* statistics) leaves the stored status of the period as it was.
C13_RunKeepsStatus ==
    [][ \A a \in Actors :
            (/\ proc[a] = "calculate_all_employees"
             /\ pc[a] = "save_statistics"
             /\ pc'[a] = "idle")
                => period'.status = period.status ]_vars

\* what one run of calculate_for_employee that does not fail persists for
\* employee e from the inputs it read
CleanRun(e, inputs) ==
    LET c == Calculation(e, [x \in Employees |-> inputs.work], inputs.dedTypes,
                         inputs.ruleOrder, inputs.allowActive)
    IN  [ taken |-> TRUE,
          payslip |-> PayslipDefaults(c),
          allowances |->
              SetToBag({ PayslipAllowance(c.allowances[i]) : i \in 1..Len(c.allowances) }),
          deductions |->
              SetToBag({ PayslipDeduction(c.deduction_rows[i]) :
                             i \in 1..Len(c.deduction_rows) }) ]

\* C14: for the employee who has no active contract effective by the period
\* end (E2: one inactive contract, one effective later), a pass fails only
\* for a missing deduction rule or a database error; otherwise the payslip is
\* produced with base_salary 0 and overtime_pay 0, whatever the overtime hours.
C14_NoContractZeroPay ==
    pass["E2"].result # "none" =>
        \/ /\ pass["E2"].result = "ok"
           /\ payslips["E2"].exists
           /\ pass["E2"].snap.payslip.base_salary = 0
           /\ pass["E2"].snap.payslip.overtime_pay = 0
        \/ /\ pass["E2"].result = "KeyError"
           /\ \/ \E c \in DeductionCodes : ~RuleSelected(pass["E2"].inputs.dedTypes, c)
              \/ pass["E2"].inputs.ruleOrder # DependencyOrder
        \/ pass["E2"].result = "DatabaseError"

C14_NoContractPayslipProduced ==
    /\ pass["E2"].result = "ok"
    /\ payslips["E2"].exists
    /\ payslips["E2"].overtime_hours > 0
    /\ payslips["E2"].base_salary = 0
    /\ payslips["E2"].overtime_pay = 0
    /\ payslips["E2"].gross_salary > 0

\* C15: whatever passes ran, at most one Payslip row was ever inserted per
\* employee of the period, a payslip exists exactly when one was inserted, and
\* a payslip just written by a pass has status CALCULATED.
C15_OnePayslipPerEmployee ==
    /\ \A e \in Employees :
           /\ inserted[e] <= 1
           /\ payslips[e].exists <=> inserted[e] = 1
           /\ pass[e].result = "ok" => pass[e].snap.payslip.status = "CALCULATED"
    /\ \A a \in Actors :
           pc[a] \in EmployeeSteps => payslips[mem[a].employee].status = "CALCULATED"

C15_PayslipOverwritten ==
    \E e \in Employees :
        /\ inserted[e] = 1
        /\ pass[e].result = "ok"
        /\ pass[e].prior # "none"
        /\ payslips[e].status = "CALCULATED"

\* C16: a step changes the detail rows of a payslip only for the employee
\* being calculated, and when a pass succeeds the payslip's allowance and
\* deduction rows are exactly one row per entry of the maps computed from the
\* inputs of that pass.
C16_DetailsFullyReplaced ==
    [][ /\ \A x \in Employees :
               (allowRows'[x] # allowRows[x] \/ dedRows'[x] # dedRows[x])
                   => \E a \in Actors : mem[a].employee = x
        /\ \A e \in Employees :
               (pass'[e] # pass[e] /\ pass'[e].result = "ok")
                   => /\ allowRows'[e] = CleanRun(e, pass'[e].inputs).allowances
                      /\ dedRows'[e] = CleanRun(e, pass'[e].inputs).deductions ]_vars

C16_StaleRowRemoved ==
    \E e \in Employees :
        /\ pass[e].result = "ok"
        /\ pass[e].stale
        /\ "MEAL" \notin pass[e].inputs.allowActive
        /\ \A r \in BagToSet(allowRows[e]) : r.allowance_type # "MEAL"
        /\ \E x \in Employees \ {e} : allowRows[x] # EmptyBag

\* C17: a pass that succeeds after a pass for the same employee, with the
\* same inputs, failed with a database error leaves exactly the payslip and
\* detail rows that a run that never failed leaves.
C17_RetryAfterFailure ==
    \A e \in Employees :
        (pass[e].result = "ok" /\ pass[e].prior = "DatabaseError")
            => pass[e].snap = CleanRun(e, pass[e].inputs)

C17_RetriedToSuccess ==
    \E e \in Employees :
        /\ pass[e].result = "ok"
        /\ pass[e].prior = "DatabaseError"
        /\ faults > 0
        /\ payslips[e].exists

\* C18: _calculate_income_tax follows the four-band schedule with each limit in
\* the lower band: 1,500,000 gives 90,000, 4,500,000 gives 540,000, 8,800,000
\* gives 1,572,000, one won above a limit adds the next band's rate on that
\* won (1,500,001 gives 90,000.15), and the tax never decreases as gross grows.
C18_IncomeTaxSchedule ==
    (call.fn = "_calculate_income_tax" /\ call.done) =>
        LET g == call.args[1]
            h == call.args[2]
            t == call.result[1]
            u == call.result[2]
            \* the schedule on a whole number of won, in 1/100 won
            ScheduleTax(w) ==
                IF w <= 1500000 THEN 6 * w
                ELSE IF w <= 4500000 THEN Won(90000) + 15 * (w - 1500000)
                ELSE IF w <= 8800000 THEN Won(540000) + 24 * (w - 4500000)
                ELSE Won(1572000) + 35 * (w - 8800000)
        IN  /\ t = ScheduleTax(g \div CentScale)
            /\ g = Won(1500000) => t = Won(90000)
            /\ g = Won(1500001) => t = Won(90000) + 15
            /\ g = Won(4500000) => t = Won(540000)
            /\ g = Won(4500001) => t = Won(540000) + 24
            /\ g = Won(8800000) => t = Won(1572000)
            /\ g = Won(8800001) => t = Won(1572000) + 35
            /\ g <= h => t <= u

C18_AcrossFirstLimit ==
    /\ call.fn = "_calculate_income_tax"
    /\ call.done
    /\ call.args = << Won(1500000), Won(1500001) >>
    /\ call.result = << Won(90000), Won(90000) + 15 >>

\* C19: with a resolved contract the base salary is monthly_base when there
\* is no unpaid leave, and otherwise monthly_base less unpaid_leave_days
\* thirtieths of it (the daily rate being rounded at the working precision);
\* monthly_base 3,000,000 with 3 unpaid days gives 2,700,000.
C19_UnpaidLeaveDeduction ==
    (call.fn = "_calculate_base_salary" /\ call.done) =>
        LET monthly_base == call.args[1]
            days == call.args[2]
            base == call.result[1]
        IN  /\ days = 0 => base = monthly_base
            /\ days > 0 =>
                  /\ 30 * (monthly_base - base) - monthly_base * days <= 15 * days
                  /\ monthly_base * days - 30 * (monthly_base - base) <= 15 * days
            /\ monthly_base % 30 = 0 => 30 * (monthly_base - base) = monthly_base * days
            /\ (monthly_base = Won(3000000) /\ days = 3) => base = Won(2700000)

C19_ThreeDaysOfThreeMillion ==
    /\ call.fn = "_calculate_base_salary"
    /\ call.done
    /\ call.args = << Won(3000000), 3 >>
    /\ call.result = << Won(2700000) >>

\* C20: a period is APPROVED, PAID or CLOSED exactly when approved_at is
\* set, in the database and on every loaded instance; a successful approve
\* sets it and a rejected approve leaves it as it was.
C20_ApprovedAtStamped ==
    /\ period.approved_at <=> period.status \in {"APPROVED", "PAID", "CLOSED"}
    /\ \A a \in Actors :
          obj[a] # NoObj =>
              (obj[a].approved_at <=> obj[a].status \in {"APPROVED", "PAID", "CLOSED"})
    /\ last.name = "approve" =>
          IF last.raised
          THEN last.after.approved_at = last.before.approved_at
          ELSE /\ last.before.status = "PENDING_APPROVAL"
               /\ ~last.before.approved_at
               /\ last.after.status = "APPROVED"
               /\ last.after.approved_at

C20_ApproveStamped ==
    /\ last.name = "approve"
    /\ ~last.raised
    /\ ~last.db_before.approved_at
    /\ period.status = "APPROVED"
    /\ period.approved_at

\* C21: in every finished pass, whatever order the rule rows were read in,
\* LONG_TERM_CARE is computed when HEALTH and LONG_TERM_CARE are both active
\* statutory rules, and RESIDENT_TAX is computed when INCOME_TAX and
\* RESIDENT_TAX are both active statutory rules.
C21_DerivedComputedInAnyOrder ==
    \A e \in Employees :
        pass[e].result # "none" =>
            LET types == pass[e].inputs.dedTypes
            IN  /\ (RuleSelected(types, "HEALTH") /\ RuleSelected(types, "LONG_TERM_CARE"))
                       => "LONG_TERM_CARE" \in pass[e].computed
                /\ (RuleSelected(types, "INCOME_TAX") /\ RuleSelected(types, "RESIDENT_TAX"))
                       => "RESIDENT_TAX" \in pass[e].computed

\* C22: every step that creates or modifies a payslip or a detail row of the
\* period is taken while the period's status is CALCULATING, and no step taken
\* while the period is PENDING_APPROVAL, APPROVED, PAID or CLOSED changes the
\* payslips, the detail rows or the period totals.
C22_CalculationGated ==
    [][ /\ (payslips' # payslips \/ allowRows' # allowRows \/ dedRows' # dedRows)
            => period.status = "CALCULATING"
        /\ period.status \in {"PENDING_APPROVAL", "APPROVED", "PAID", "CLOSED"}
            => /\ UNCHANGED << payslips, allowRows, dedRows >>
               /\ period'.total_gross = period.total_gross
               /\ period'.total_deductions = period.total_deductions
               /\ period'.total_net = period.total_net
               /\ period'.employee_count = period.employee_count ]_vars

\* C23: once calculate_payroll_action has run on a DRAFT period and returned,
\* with success or with an error message, the period is not persisted in
\* CALCULATING.
C23_NotLeftCalculating ==
    \A a \in Actors :
        (/\ pc[a] = "idle"
         /\ outcome[a].proc = "calculate_payroll_action"
         /\ outcome[a].result \in {"ok", "error"})
            => period.status # "CALCULATING"

\* Sum("amount") over a bag of detail rows
RECURSIVE SumBag(_)
SumBag(rows) ==
    IF BagToSet(rows) = {} THEN 0
    ELSE LET r == CHOOSE x \in BagToSet(rows) : TRUE
         IN  r.amount * CopiesIn(r, rows)
             + SumBag([x \in BagToSet(rows) \ {r} |-> rows[x]])

\* C24: what a successful pass leaves for an employee agrees: the six
\* header deduction fields sum to total_deductions, the PayslipDeduction rows'
\* amounts sum to total_deductions, and the PayslipAllowance rows' amounts sum
\* to total_allowances.
C24_HeaderAndDetailSums ==
    \A e \in Employees :
        pass[e].result = "ok" =>
            LET slip == pass[e].snap.payslip
            IN  /\ slip.national_pension + slip.health_insurance + slip.long_term_care
                       + slip.employment_insurance + slip.income_tax + slip.resident_tax
                   = slip.total_deductions
                /\ SumBag(pass[e].snap.deductions) = slip.total_deductions
                /\ SumBag(pass[e].snap.allowances) = slip.total_allowances

\* C25: the base salary and the overtime pay of a payslip both come from one
\* contract of the employee: the one with the latest effective_date among the
\* employee's contracts with is_active set and effective_date on or before
\* the period's end date (both are 0 when there is none).
C25_LatestContractInForce ==
    \A e \in Employees :
        pass[e].result = "ok" =>
            LET slip == pass[e].snap.payslip
                inForce == { c \in SalaryContracts :
                               /\ c.employee = e
                               /\ c.is_active
                               /\ c.effective_date <= PeriodDates.end_date }
            IN  IF inForce = {}
                THEN slip.base_salary = 0 /\ slip.overtime_pay = 0
                ELSE \E c \in inForce :
                        /\ \A d \in inForce : d.effective_date <= c.effective_date
                        /\ slip.base_salary =
                               MoneyField(BaseSalaryOf(c.monthly_base_salary,
                                                       slip.unpaid_leave_days))
                        /\ slip.overtime_pay =
                               MoneyField(OvertimePayOf(c.monthly_base_salary,
                                                        slip.overtime_hours))

C25_ChosenAmongSeveral ==
    /\ pass["E1"].result = "ok"
    /\ Cardinality({ c \in SalaryContracts : c.employee = "E1" /\ c.is_active }) > 2
    /\ pass["E1"].snap.payslip.base_salary = MoneyField(BaseSalaryOf(KRW(100), 1))
    /\ pass["E1"].snap.payslip.overtime_pay = MoneyField(OvertimePayOf(KRW(100), 1))
    /\ pass["E1"].snap.payslip.overtime_pay > 0

\* C26: with a max_amount configured on the PENSION rule (0 included), the
\* PENSION amount is gross times rate when that is at most max_amount, and
\* max_amount otherwise; so it never exceeds max_amount.
C26_PensionClamped ==
    (call.fn = "PENSION" /\ call.done /\ call.args[3] # None) =>
        LET unclamped == MulFrac(call.args[1], call.args[2], RateDen)
            max_amount == call.args[3]
            amount == call.result[1]
        IN  /\ amount <= max_amount
            /\ amount = IF unclamped <= max_amount THEN unclamped ELSE max_amount

\* the sum of the amounts of a set of <<code, amount>> pairs
RECURSIVE SumPairs(_)
SumPairs(pairs) ==
    IF pairs = {} THEN 0
    ELSE LET p == CHOOSE x \in pairs : TRUE
         IN  p[2] + SumPairs(pairs \ {p})

\* C27: the allowance map holds exactly the POSITION rule, when it is active
\* and the employee has a position with a nonzero allowance, with that
\* allowance, and every other active FIXED rule whose code is not OVERTIME,
\* NIGHT or HOLIDAY with its default amount; total_allowances is the sum of
\* the map's amounts.
C27_AllowanceMap ==
    (call.fn = "_calculate_allowances" /\ call.done) =>
        LET active == call.args[1]
            job == call.args[2]
            entries == call.result[1]
            total_allowances == call.result[2]
            rules == { AllowanceTypes[i] : i \in 1..Len(AllowanceTypes) }
            expected ==
                { << "POSITION", job.allowance >> :
                      x \in { y \in {"POSITION"} :
                                 y \in active /\ job.position /\ job.allowance # 0 } }
                \cup
                { << t.code, t.default_amount >> :
                      t \in { r \in rules :
                                 /\ r.code \in active
                                 /\ r.code \notin {"POSITION", "OVERTIME", "NIGHT", "HOLIDAY"}
                                 /\ r.calculation_type = "FIXED" } }
        IN  /\ { << entries[i].code, entries[i].amount >> : i \in 1..Len(entries) }
                   = expected
            /\ Len(entries) = Cardinality(expected)
            /\ total_allowances = SumPairs(expected)

C27_PositionAndMealOnly ==
    /\ call.fn = "_calculate_allowances"
    /\ call.done
    /\ call.args[1] = AllowanceCodes
    /\ call.args[2].allowance = KRW(50)
    /\ { call.result[1][i].code : i \in 1..Len(call.result[1]) } = {"MEAL", "POSITION"}
    /\ call.result[2] = KRW(60)

C29_AdjustmentsSurvive ==
    [][ \A e \in Employees :
          /\ adjustments[e] \subseteq adjustments'[e]
          /\ \A adj \in adjustments'[e] :
                payslips'[e].exists /\ adj.payslip = inserted'[e] ]_vars

C29_RecalculatedWithAdjustment ==
    /\ adjustments["E1"] # {}
    /\ pc["A1"] = "insert_deductions"
    /\ allowRows["E1"] # EmptyBag
    /\ payslips["E1"].exists

\* C30: a payslip produced from non-negative salary, allowances, overtime
\* hours and rates has base_salary >= 0 and total_deductions >= 0, hence
\* net_salary <= gross_salary, whatever the unpaid leave requests on file.
C30_NonNegativePayslip ==
    (call.fn = "calculate_for_employee" /\ call.done) =>
        LET slip == call.result[1]
        IN  /\ slip.base_salary >= 0
            /\ slip.total_deductions >= 0
            /\ slip.net_salary <= slip.gross_salary

=============================================================================
